---- MODULE Spec2Model ----
(***************************************************************************)
(* IntensitySegments (src/IntensitySegments.js): a Map from integer points *)
(* to intensity values, with add(from, to, amount), set(from, to, amount)  *)
(* and toString().                                                         *)
(*                                                                         *)
(* The Map is a sequence of <<key, value>> entries in insertion order, as  *)
(* a JavaScript Map iterates them.  A JavaScript number passed as a range  *)
(* bound is a record [int |-> k, frac |-> f] standing for k + f/10; the    *)
(* keys and values stored in the Map are integers, and amounts are         *)
(* integers small enough for + to be exact.                                *)
(***************************************************************************)
EXTENDS Integers, Sequences, FiniteSets

VARIABLES
    segments,   \* this.segments: the Map, entries in insertion order
    before,     \* this.segments as it was when the last call started
    call,       \* the last call: [op, from, to, amount]
    result,     \* how the last call ended: [thrown, value]
    calls       \* the number of add and set calls made so far

vars == <<segments, before, call, result, calls>>

----------------------------------------------------------------------------
(* Bounds of the model *)

MaxKey == 1
MaxAmount == 1
MaxCalls == 2

Keys == -1..MaxKey
Amounts == -1..MaxAmount

Integer(k) == [int |-> k, frac |-> 0]
\* k + 0.5, a number that is not an integer
Half(k) == [int |-> k, frac |-> 5]

Numbers == {Integer(k) : k \in Keys} \cup {Half(0)}

----------------------------------------------------------------------------
(* JavaScript primitives used by the class *)

\* Number.isInteger(x)
IsInteger(x) == x.frac = 0

\* x > y on numbers
GreaterThan(x, y) == x.int > y.int \/ (x.int = y.int /\ x.frac > y.frac)

\* Array.from(map.keys()): the keys in insertion order
MapKeys(m) == [i \in 1..Len(m) |-> m[i][1]]

\* map.has(k)
MapHas(m, k) == \E i \in 1..Len(m) : m[i][1] = k

\* map.get(k), for a key the map has
MapGet(m, k) == m[CHOOSE i \in 1..Len(m) : m[i][1] = k][2]

\* the stored value is not read
GetOrZeroUnread(m, k) == 0

\* map.get(k) || 0: undefined (no such key) and 0 both give 0
GetOrZero(m, k) == IF MapHas(m, k) THEN MapGet(m, k) ELSE 0

\* an array of pairs in place of the Map: every write goes last
MapSetPush(m, k, v) == Append(m, <<k, v>>)

\* map.set(k, v): an existing key keeps its place, a new key goes last
MapSet(m, k, v) ==
    IF MapHas(m, k)
    THEN [i \in 1..Len(m) |-> IF m[i][1] = k THEN <<k, v>> ELSE m[i]]
    ELSE Append(m, <<k, v>>)

----------------------------------------------------------------------------
(* add and set *)

InvalidRangeMessage ==
    "Invalid range: 'from' must be <= 'to' and both must be integers."

\* the guard without from > to
InvalidRangeIntegersOnly(from, to) == ~IsInteger(from) \/ ~IsInteger(to)

\* the guard of add and of set
InvalidRange(from, to) ==
    ~IsInteger(from) \/ ~IsInteger(to) \/ GreaterThan(from, to)

RECURSIVE addLoopExclusive(_, _, _, _)
\* the loop with i < to
addLoopExclusive(m, i, to, amount) ==
    IF i < to
    THEN addLoopExclusive(MapSet(m, i, GetOrZero(m, i) + amount), i + 1, to,
                          amount)
    ELSE m

RECURSIVE addLoopAssign(_, _, _, _)
\* the loop of set in add
addLoopAssign(m, i, to, amount) ==
    IF i <= to
    THEN addLoopAssign(MapSet(m, i, amount), i + 1, to, amount)
    ELSE m

RECURSIVE addLoop(_, _, _, _)
\* for (let i = from; i <= to; i++) segments.set(i, (segments.get(i) || 0) + amount)
addLoop(m, i, to, amount) ==
    IF i <= to
    THEN addLoop(MapSet(m, i, GetOrZero(m, i) + amount), i + 1, to, amount)
    ELSE m

RECURSIVE setLoopExclusive(_, _, _, _)
\* the loop with i < to
setLoopExclusive(m, i, to, amount) ==
    IF i < to
    THEN setLoopExclusive(MapSet(m, i, amount), i + 1, to, amount)
    ELSE m

RECURSIVE setLoopPastEnd(_, _, _, _)
\* the loop with i <= to + 1
setLoopPastEnd(m, i, to, amount) ==
    IF i <= to + 1
    THEN setLoopPastEnd(MapSet(m, i, amount), i + 1, to, amount)
    ELSE m

RECURSIVE setLoopAccumulate(_, _, _, _)
\* the loop of add in set
setLoopAccumulate(m, i, to, amount) ==
    IF i <= to
    THEN setLoopAccumulate(MapSet(m, i, GetOrZero(m, i) + amount), i + 1, to,
                           amount)
    ELSE m

RECURSIVE setLoop(_, _, _, _)
\* for (let i = from; i <= to; i++) segments.set(i, amount)
setLoop(m, i, to, amount) ==
    IF i <= to
    THEN setLoop(MapSet(m, i, amount), i + 1, to, amount)
    ELSE m

Thrown(message) == [thrown |-> TRUE, value |-> message]
Returned(v) == [thrown |-> FALSE, value |-> v]

\* IntensitySegments.add(from, to, amount)
add(from, to, amount) ==
    /\ before' = segments
    /\ call' = [op |-> "add", from |-> from, to |-> to, amount |-> amount]
    /\ IF InvalidRange(from, to)
       THEN /\ result' = Thrown(InvalidRangeMessage)
            /\ UNCHANGED segments
       ELSE /\ segments' = addLoop(segments, from.int, to.int, amount)
            /\ result' = Returned("undefined")

\* IntensitySegments.set(from, to, amount)
set(from, to, amount) ==
    /\ before' = segments
    /\ call' = [op |-> "set", from |-> from, to |-> to, amount |-> amount]
    /\ IF InvalidRange(from, to)
       THEN /\ result' = Thrown(InvalidRangeMessage)
            /\ UNCHANGED segments
       ELSE /\ segments' = setLoop(segments, from.int, to.int, amount)
            /\ result' = Returned("undefined")

----------------------------------------------------------------------------
(* toString *)

\* the comparator (a, b) => b - a
CompareDescending(a, b) == b - a

\* the comparator (a, b) => a - b
Compare(a, b) == a - b

RECURSIVE Insert(_, _)
\* x put into the sorted sequence s, after the elements that do not
\* compare greater than it
Insert(s, x) ==
    IF s = <<>> THEN <<x>>
    ELSE IF Compare(Head(s), x) > 0 THEN <<x>> \o s
    ELSE <<Head(s)>> \o Insert(Tail(s), x)

RECURSIVE Sort(_)
\* Array.prototype.sort with the comparator Compare
Sort(s) == IF s = <<>> THEN <<>> ELSE Insert(Sort(Tail(s)), Head(s))

\* sortedKeys of toString
sortedKeys(m) == Sort(MapKeys(m))

Digit(d) == <<"0", "1", "2", "3", "4", "5", "6", "7", "8", "9">>[d + 1]

RECURSIVE Decimal(_)
\* the decimal digits of a natural number
Decimal(n) == IF n < 10 THEN Digit(n) ELSE Decimal(n \div 10) \o Digit(n % 10)

\* `${n}` for an integer n
NumberToString(n) == IF n < 0 THEN "-" \o Decimal(-n) ELSE Decimal(n)

\* the entry without the blank after the colon
EntryToStringNoBlank(m, key) ==
    NumberToString(key) \o ":" \o NumberToString(MapGet(m, key))

\* `${key}: ${this.segments.get(key)}`
EntryToString(m, key) ==
    NumberToString(key) \o ": " \o NumberToString(MapGet(m, key))

RECURSIVE Join(_, _)
\* Array.prototype.join
Join(strs, sep) ==
    IF strs = <<>> THEN ""
    ELSE IF Len(strs) = 1 THEN strs[1]
    ELSE strs[1] \o sep \o Join(Tail(strs), sep)

\* the string toString returns
toStringOf(m) ==
    Join([i \in 1..Len(m) |-> EntryToString(m, sortedKeys(m)[i])], ", ")

NoArgument == Integer(0)

\* IntensitySegments.toString()
toString ==
    /\ before' = segments
    /\ call' = [op |-> "toString", from |-> NoArgument, to |-> NoArgument,
                amount |-> 0]
    /\ result' = Returned(toStringOf(segments))
    /\ UNCHANGED <<segments, calls>>

----------------------------------------------------------------------------
(* The specification: any sequence of calls on a new IntensitySegments *)

\* new IntensitySegments()
Init ==
    /\ segments = <<>>
    /\ before = <<>>
    /\ call = [op |-> "new", from |-> NoArgument, to |-> NoArgument,
               amount |-> 0]
    /\ result = Returned("undefined")
    /\ calls = 0

\* one more add or set call, while the model's bound allows it
Called == calls < MaxCalls /\ calls' = calls + 1

Add ==
    \E from \in Numbers, to \in Numbers, amount \in Amounts :
        Called /\ add(from, to, amount)

Set ==
    \E from \in Numbers, to \in Numbers, amount \in Amounts :
        Called /\ set(from, to, amount)

ToString == toString

Next == Add \/ Set \/ ToString

Spec == Init /\ [][Next]_vars

----------------------------------------------------------------------------
(* The scenario of the class comment and of the specification's examples:  *)
(* calls with bounds among 1..8 and the amounts 5 and 10                   *)

ScenarioNumbers == {Integer(k) : k \in 1..8}
ScenarioAmounts == {5, 10}

\* the scenario is two add or set calls long
ScenarioCalled == calls < 2 /\ calls' = calls + 1

ScenarioAdd ==
    \E from \in ScenarioNumbers, to \in ScenarioNumbers,
       amount \in ScenarioAmounts :
        ScenarioCalled /\ add(from, to, amount)

ScenarioSet ==
    \E from \in ScenarioNumbers, to \in ScenarioNumbers,
       amount \in ScenarioAmounts :
        ScenarioCalled /\ set(from, to, amount)

ScenarioToString == toString

ScenarioNext == ScenarioAdd \/ ScenarioSet \/ ScenarioToString

SpecScenario == Init /\ [][ScenarioNext]_vars

----------------------------------------------------------------------------
(* Vocabulary of the properties *)

\* the last call was add or set, with valid bounds, and returned
ValidCall(op) ==
    /\ call.op = op
    /\ call.from.frac = 0
    /\ call.to.frac = 0
    /\ call.from.int <= call.to.int
    /\ ~result.thrown

From == call.from.int
To == call.to.int

\* the keys stored in a map
KeySet(m) == {m[i][1] : i \in 1..Len(m)}

\* the positions the properties look at: every key a call can name and one
\* position on either side
Positions == -2..(MaxKey + 1)

\* the value of the step function at p: the value stored at the greatest
\* key <= p, or 0 if no key is <= p
StepValue(m, p) ==
    LET below == {k \in KeySet(m) : k <= p}
    IN  IF below = {} THEN 0
        ELSE MapGet(m, CHOOSE k \in below : \A j \in below : j <= k)

\* the value of the point p: the value stored at p, or 0 if p is not stored
PointValue(m, p) == IF p \in KeySet(m) THEN MapGet(m, p) ELSE 0

\* the entry of p is the same in m and n: stored in both with one value, or
\* in neither
SameEntry(m, n, p) ==
    /\ (p \in KeySet(m)) = (p \in KeySet(n))
    /\ PointValue(m, p) = PointValue(n, p)

RECURSIVE Listing(_, _, _)
\* the entries of m with keys in lo..hi, by ascending key, each as "k: v"
Listing(m, lo, hi) ==
    IF lo > hi THEN <<>>
    ELSE IF lo \in KeySet(m)
         THEN <<EntryToString(m, lo)>> \o Listing(m, lo + 1, hi)
         ELSE Listing(m, lo + 1, hi)

----------------------------------------------------------------------------
(* C1 *)

\* the last call was add or set with from > to or a bound that is not an
\* integer
InvalidCall ==
    /\ call.op \in {"add", "set"}
    /\ \/ call.from.frac # 0
       \/ call.to.frac # 0
       \/ call.from.int > call.to.int
       \/ (call.from.int = call.to.int /\ call.from.frac > call.to.frac)

\* C1: an add or set call with from > to or with a bound that is not an
\* integer throws the invalid-range error and leaves the Map, and so the
\* string toString gives, as they were before the call.
C1_InvalidRangeLeavesState ==
    InvalidCall =>
        /\ result = Thrown(InvalidRangeMessage)
        /\ segments = before
        /\ toStringOf(segments) = toStringOf(before)

C1_Witness ==
    /\ call.op = "add"
    /\ call.from = Integer(1)
    /\ call.to = Integer(-1)
    /\ result.thrown
    /\ Len(before) > 1

----------------------------------------------------------------------------
(* C2 *)

\* C2, as claimed: after a valid add(from, to, amount) the step function is
\* the one before plus amount on from <= p < to, and the one before at
\* every other position, position to included.
C2_AddIsHalfOpenOnStepFunction ==
    ValidCall("add") =>
        \A p \in Positions :
            StepValue(segments, p) =
                StepValue(before, p)
                    + (IF From <= p /\ p < To THEN call.amount ELSE 0)

\* C2, amended: after a valid add(from, to, amount) every position p with
\* from <= p <= to is stored with the value it had before (0 if it was not
\* stored) plus amount, and every other position has the entry it had
\* before; position to is part of the range.
C2_AddIsInclusiveOnPoints ==
    ValidCall("add") =>
        \A p \in Positions :
            IF From <= p /\ p <= To
            THEN /\ p \in KeySet(segments)
                 /\ PointValue(segments, p) = PointValue(before, p) + call.amount
            ELSE SameEntry(segments, before, p)

C2_Witness ==
    /\ ValidCall("add")
    /\ From < To
    /\ call.amount # 0
    /\ To \in KeySet(before)
    /\ PointValue(before, To) # 0
    /\ KeySet(before) \ (From..To) # {}
    /\ (From..To) \ KeySet(before) # {}

----------------------------------------------------------------------------
(* C3 *)

\* C3, as claimed: after a valid set(from, to, amount) the step function is
\* amount on from <= p < to and the one before at every other position,
\* position to included.
C3_SetIsHalfOpenOnStepFunction ==
    ValidCall("set") =>
        \A p \in Positions :
            StepValue(segments, p) =
                (IF From <= p /\ p < To THEN call.amount
                 ELSE StepValue(before, p))

\* C3, amended: after a valid set(from, to, amount) every position p with
\* from <= p <= to is stored with the value amount whatever it held before,
\* and every other position has the entry it had before; position to is
\* part of the range.
C3_SetIsInclusiveOnPoints ==
    ValidCall("set") =>
        \A p \in Positions :
            IF From <= p /\ p <= To
            THEN /\ p \in KeySet(segments)
                 /\ PointValue(segments, p) = call.amount
            ELSE SameEntry(segments, before, p)

C3_Witness ==
    /\ ValidCall("set")
    /\ From = To
    /\ KeySet(before) = Keys
    /\ \A p \in Keys : PointValue(before, p) # call.amount
    /\ PointValue(before, From) # 0

----------------------------------------------------------------------------
(* C4 *)

\* the entries of m in ascending key order
Ascending(m) == [i \in 1..Len(m) |-> <<sortedKeys(m)[i], MapGet(m, sortedKeys(m)[i])>>]

\* C4, as claimed: in the ascending listing no entry has the value of the
\* entry before it, and the first entry does not have the value 0.
C4_ListingIsCanonical ==
    LET l == Ascending(segments)
    IN  \A i \in 1..Len(l) :
            l[i][2] # (IF i = 1 THEN 0 ELSE l[i - 1][2])

\* C4, amended: the ascending listing has strictly increasing keys, and a
\* valid add or set call leaves stored exactly the positions stored before
\* and the positions p with from <= p <= to: no entry is ever removed,
\* whether or not its value repeats the value before it or is 0.
C4_ListingKeepsEveryPoint ==
    LET l == Ascending(segments)
    IN  /\ \A i \in 2..Len(l) : l[i - 1][1] < l[i][1]
        /\ (ValidCall("add") \/ ValidCall("set")) =>
               /\ KeySet(segments) = KeySet(before) \cup (From..To)
               /\ Len(l) = Cardinality(KeySet(before) \cup (From..To))

C4_Witness ==
    /\ ValidCall("add")
    /\ Len(before) > 0
    /\ LET l == Ascending(segments)
       IN  /\ Len(l) > 2
           /\ l[1][2] = 0
           /\ l[2][2] = l[3][2]
           /\ l[2][2] # 0

----------------------------------------------------------------------------
(* C5 *)

\* C5, as claimed: a valid add(from, to, 0) leaves the string toString
\* gives as it was.
C5_AddZeroKeepsString ==
    (ValidCall("add") /\ call.amount = 0) =>
        toStringOf(segments) = toStringOf(before)

\* C5, amended: a valid add(from, to, 0) leaves every stored value as it
\* was and stores the value 0 at every position p with from <= p <= to that
\* was not stored; the string toString gives is as it was exactly when
\* every such position was already stored.
C5_AddZeroKeepsValues ==
    (ValidCall("add") /\ call.amount = 0) =>
        /\ \A p \in Positions : PointValue(segments, p) = PointValue(before, p)
        /\ KeySet(segments) = KeySet(before) \cup (From..To)
        /\ (toStringOf(segments) = toStringOf(before))
               = ((From..To) \subseteq KeySet(before))

C5_Witness ==
    /\ ValidCall("add")
    /\ call.amount = 0
    /\ \E p \in From..To : p \in KeySet(before) /\ PointValue(before, p) # 0
    /\ \E p \in From..To : p \notin KeySet(before)

----------------------------------------------------------------------------
(* C6 *)

\* C6, as claimed: the only keys a valid add or set call can newly store
\* are from and to, so the number of entries grows by at most 2.
C6_OnlyBoundsAreCreated ==
    (ValidCall("add") \/ ValidCall("set")) =>
        /\ KeySet(segments) \ KeySet(before) \subseteq {From, To}
        /\ Len(segments) <= Len(before) + 2

\* C6, amended: the only keys a valid add or set call can newly store are
\* the positions p with from <= p <= to, every one of them that was not
\* stored, so the number of entries grows by at most to - from + 1.
C6_OnlyRangeIsCreated ==
    (ValidCall("add") \/ ValidCall("set")) =>
        /\ KeySet(segments) \ KeySet(before) = (From..To) \ KeySet(before)
        /\ Len(segments) =
               Len(before) + Cardinality((From..To) \ KeySet(before))
        /\ Len(segments) <= Len(before) + (To - From + 1)

C6_Witness ==
    /\ ValidCall("set")
    /\ To - From > 1
    /\ KeySet(before) = {To}

----------------------------------------------------------------------------
(* C7 *)

ScenarioFirstAdd ==
    [op |-> "add", from |-> Integer(1), to |-> Integer(5), amount |-> 10]
ScenarioSecondAdd ==
    [op |-> "add", from |-> Integer(4), to |-> Integer(8), amount |-> 5]

\* C7, as claimed: on a new structure add(1, 5, 10) gives the listing
\* "1: 10, 5: 0", and add(4, 8, 5) after it gives
\* "1: 10, 4: 15, 5: 5, 8: 0".
C7_ScenarioListsBreakpoints ==
    /\ (calls = 1 /\ call = ScenarioFirstAdd) =>
           toStringOf(segments) = "1: 10, 5: 0"
    /\ (calls = 2 /\ call = ScenarioSecondAdd
            /\ toStringOf(before) = "1: 10, 5: 0") =>
           toStringOf(segments) = "1: 10, 4: 15, 5: 5, 8: 0"

\* C7, amended: on a new structure add(1, 5, 10) gives the listing
\* "1: 10, 2: 10, 3: 10, 4: 10, 5: 10", and add(4, 8, 5) after it gives
\* "1: 10, 2: 10, 3: 10, 4: 15, 5: 15, 6: 5, 7: 5, 8: 5".
C7_ScenarioListsPoints ==
    /\ (calls = 1 /\ call = ScenarioFirstAdd) =>
           toStringOf(segments) = "1: 10, 2: 10, 3: 10, 4: 10, 5: 10"
    /\ (calls = 2 /\ call = ScenarioSecondAdd
            /\ toStringOf(before) = "1: 10, 2: 10, 3: 10, 4: 10, 5: 10") =>
           toStringOf(segments) =
               "1: 10, 2: 10, 3: 10, 4: 15, 5: 15, 6: 5, 7: 5, 8: 5"

C7_Witness ==
    /\ calls = 2
    /\ call = ScenarioSecondAdd
    /\ ~result.thrown
    /\ toStringOf(before) = "1: 10, 2: 10, 3: 10, 4: 10, 5: 10"
    /\ Len(segments) = 8

----------------------------------------------------------------------------
(* C8 *)

\* C8: add(a, b, x) and then add(a, b, y) give the Map, and the string of
\* toString, that add(a, b, x + y) gives from the same state: after a valid
\* add(a, b, x), a further add(a, b, y) leads where add(a, b, x + y) leads
\* from the state before.
C8_AddIsAdditive ==
    ValidCall("add") =>
        \A y \in Amounts :
            LET twice == addLoop(segments, From, To, y)
                once == addLoop(before, From, To, call.amount + y)
            IN  /\ twice = once
                /\ toStringOf(twice) = toStringOf(once)

C8_Witness ==
    /\ ValidCall("add")
    /\ call.amount # 0
    /\ From < To
    /\ \E p \in From..To : p \in KeySet(before) /\ PointValue(before, p) # 0
    /\ \E p \in From..To : p \notin KeySet(before)
    /\ KeySet(before) \ (From..To) # {}

----------------------------------------------------------------------------
(* C9 *)

\* C9: set(a, b, v) twice in a row gives the Map, and the string of
\* toString, that set(a, b, v) once gives: after a valid set(a, b, v), the
\* same call again leads to the same state.
C9_SetIsIdempotent ==
    ValidCall("set") =>
        LET twice == setLoop(segments, From, To, call.amount)
        IN  /\ twice = segments
            /\ toStringOf(twice) = toStringOf(segments)

C9_Witness ==
    /\ ValidCall("set")
    /\ call.amount # 0
    /\ From < To
    /\ segments # before
    /\ \E p \in From..To : p \in KeySet(before)
    /\ \E p \in From..To : p \notin KeySet(before)

----------------------------------------------------------------------------
(* C10 *)

\* C10: the string of toString lists every stored key once, with its stored
\* value, by strictly ascending key whatever the order the keys were
\* inserted in, and nothing else; it is empty for the empty Map; toString
\* leaves the Map as it was, and returns this string.
C10_ToStringListsAscending ==
    LET ks == sortedKeys(segments)
    IN  /\ Len(ks) = Cardinality(KeySet(segments))
        /\ {ks[i] : i \in 1..Len(ks)} = KeySet(segments)
        /\ \A i \in 2..Len(ks) : ks[i - 1] < ks[i]
        /\ toStringOf(segments) = Join(Listing(segments, -2, MaxKey + 1), ", ")
        /\ (segments = <<>> => toStringOf(segments) = "")
        /\ call.op = "toString" =>
               /\ segments = before
               /\ result = Returned(toStringOf(segments))

C10_Witness ==
    /\ call.op = "toString"
    /\ Len(segments) = 3
    /\ MapKeys(segments) = <<0, 1, -1>>
    /\ result.value = "-1: 1, 0: 1, 1: -1"

====
